---- MODULE Spec2Model ----
(***************************************************************************)
(* A model of plasma's binary views (src/binary/view.rs, src/binary/mod.rs) *)
(* BorrowView is a cursor (handle, offset, bound_offset) over an immutable  *)
(* byte container.  The operations of `impl View for BorrowView` are pure   *)
(* functions of the cursor; they are written here as operators and applied  *)
(* by one action each to the cursor the caller currently holds.             *)
(***************************************************************************)
EXTENDS Integers, Sequences, FiniteSets, TLC

\* ------------------------------------------------------------------ bounds
\* usize::MAX of the modelled target (the real one is 2^32-1 or 2^64-1).
UsizeMax == 7
\* u64::MAX - usize::MAX of the modelled target: a skip or bound amount is a
\* u64 and may not fit in usize (a 32-bit target).  Amounts that fit cover
\* the 64-bit targets as well.
U64Extra == 2
\* Longest container of the ramp family 1,2,3,...
MaxLen == 4
\* Longest sequence of skips a property follows after a bound.
MaxSkips == 2

U64Max == UsizeMax + U64Extra
Usize == 0..UsizeMax
U64 == 0..U64Max
Byte == 0..255

\* ------------------------------------------------------- values of the code
\* Option<T>: None is the empty sequence, Some(x) the one-element sequence.
None == <<>>
Some(x) == <<x>>
IsSome(o) == Len(o) = 1
Unwrap(o) == o[1]

\* Distinct causes an Other error may wrap.
MaxCauses == 2

\* enum ReadError { EndOfStream, Other(Box<dyn ViewReadError>) }
EndOfStream == [kind |-> "EndOfStream"]
Other(cause) == [kind |-> "Other", cause |-> cause]
ReadErrors == {EndOfStream} \cup {Other(c) : c \in 1..MaxCauses}

\* ReadError's equality as #[derive(PartialEq)] would give it: two Other
\* are equal when their causes are.
eq_derived(a, b) ==
    a.kind = b.kind /\ (a.kind = "Other" => a.cause = b.cause)

\* impl PartialEq for ReadError: eq
eq(a, b) ==
    IF a.kind = "EndOfStream"
    THEN IF b.kind = "EndOfStream" THEN TRUE ELSE FALSE
    ELSE FALSE

\* Result<T, ReadError>, plus the outcome a Result cannot carry: a panic.
Ok(x) == [tag |-> "Ok", val |-> x]
Err(e) == [tag |-> "Err", val |-> e]
Panic == [tag |-> "Panic", val |-> "attempt to add with overflow"]
\* The value of an operation that returns no Result (bound, bound_len, new).
Ret(x) == [tag |-> "Ret", val |-> x]
IsOk(r) == r.tag = "Ok"
IsEndOfStream(r) == r.tag = "Err" /\ r.val.kind = "EndOfStream"
IsPanic(r) == r.tag = "Panic"

Min(a, b) == IF a <= b THEN a ELSE b

\* The offset sum as it would be with a wrapping add for the saturating one.
saturating_add_wraps(a, b) == (a + b) % (UsizeMax + 1)

\* usize::saturating_add / usize::saturating_sub
saturating_add(a, b) == IF a + b > UsizeMax THEN UsizeMax ELSE a + b
saturating_sub(a, b) == IF a - b < 0 THEN 0 ELSE a - b
\* usize `+` when the build has no overflow checks: two's complement wrap.
wrapping_add(a, b) == (a + b) % (UsizeMax + 1)
\* usize::try_from(u64)
try_from(x) == IF x <= UsizeMax THEN Some(x) ELSE None

\* <[u8]>::get(index) and <[u8]>::get(start..end)
get(h, i) == IF i < Len(h) THEN Some(h[i + 1]) ELSE None
get_range(h, start, end) ==
    IF start > end \/ end > Len(h) THEN None ELSE Some(SubSeq(h, start + 1, end))

\* ------------------------------------------------------------- BorrowView
\* The cursor part of a BorrowView; the handle is the variable `handle`.
View(o, b) == [offset |-> o, bound_offset |-> b]

new_offset(o) == View(o, None)
new == new_offset(0)

\* View::read_byte
read_byte(h, v) ==
    LET got == get(h, v.offset)
    IN  IF IsSome(got) THEN Ok(Unwrap(got)) ELSE Err(EndOfStream)

\* transcribe as it would be if it sliced from the start of the container
\* and not from the cursor.
transcribe_from_start(h, v, len, checks) ==
    LET slice == get_range(h, 0, len)
    IN  IF IsSome(slice) THEN Ok(Unwrap(slice)) ELSE Err(EndOfStream)

\* transcribe as it would be if it refused a range that runs past
\* bound_offset.
transcribe_bounded(h, v, len, checks) ==
    IF v.offset + len > UsizeMax /\ checks
    THEN Panic
    ELSE LET end == wrapping_add(v.offset, len)
             slice == get_range(h, v.offset, end)
         IN  IF IsSome(v.bound_offset) /\ end > Unwrap(v.bound_offset)
             THEN Err(EndOfStream)
             ELSE IF IsSome(slice) THEN Ok(Unwrap(slice)) ELSE Err(EndOfStream)

\* View::transcribe.  `self.offset + len` is a plain usize addition: with
\* overflow checks (the dev profile) an overflow panics, without them (the
\* release profile) it wraps.
transcribe(h, v, len, checks) ==
    IF v.offset + len > UsizeMax /\ checks
    THEN Panic
    ELSE LET end == wrapping_add(v.offset, len)
             slice == get_range(h, v.offset, end)
         IN  IF IsSome(slice) THEN Ok(Unwrap(slice)) ELSE Err(EndOfStream)

\* skip as it would be if landing exactly on the bound were refused
\* (`>=` for `>`).
skip_strict(v, bytes) ==
    LET bytes2 == try_from(bytes)
    IN  IF ~IsSome(bytes2)
        THEN Err(EndOfStream)
        ELSE LET new_off == saturating_add(v.offset, Unwrap(bytes2))
             IN  IF IsSome(v.bound_offset) /\ new_off >= Unwrap(v.bound_offset)
                 THEN Err(EndOfStream)
                 ELSE Ok(View(new_off, v.bound_offset))

\* skip as it would be if `bytes` were taken as the new absolute offset.
skip_absolute(v, bytes) ==
    LET bytes2 == try_from(bytes)
    IN  IF ~IsSome(bytes2)
        THEN Err(EndOfStream)
        ELSE LET new_off == Unwrap(bytes2)
             IN  IF IsSome(v.bound_offset) /\ new_off > Unwrap(v.bound_offset)
                 THEN Err(EndOfStream)
                 ELSE Ok(View(new_off, v.bound_offset))

\* skip as it would be if the offset were added with a wrapping `+`.
skip_wrapping(v, bytes) ==
    LET bytes2 == try_from(bytes)
    IN  IF ~IsSome(bytes2)
        THEN Err(EndOfStream)
        ELSE LET new_off == wrapping_add(v.offset, Unwrap(bytes2))
             IN  IF IsSome(v.bound_offset) /\ new_off > Unwrap(v.bound_offset)
                 THEN Err(EndOfStream)
                 ELSE Ok(View(new_off, v.bound_offset))

\* skip as it would be if the new view were built without the bound
\* (bound_offset: None).
skip_unbound(v, bytes) ==
    LET bytes2 == try_from(bytes)
    IN  IF ~IsSome(bytes2)
        THEN Err(EndOfStream)
        ELSE LET new_off == saturating_add(v.offset, Unwrap(bytes2))
             IN  IF IsSome(v.bound_offset) /\ new_off > Unwrap(v.bound_offset)
                 THEN Err(EndOfStream)
                 ELSE Ok(View(new_off, None))

\* View::skip
skip(v, bytes) ==
    LET bytes2 == try_from(bytes)
    IN  IF ~IsSome(bytes2)
        THEN Err(EndOfStream)
        ELSE LET new_off == saturating_add(v.offset, Unwrap(bytes2))
             IN  IF IsSome(v.bound_offset) /\ new_off > Unwrap(v.bound_offset)
                 THEN Err(EndOfStream)
                 ELSE Ok(View(new_off, v.bound_offset))

\* bound as it would be if a later call replaced the bound (no `min`).
bound_replace(v, len) ==
    LET len2 == try_from(len)
    IN  IF ~IsSome(len2)
        THEN v
        ELSE View(v.offset, Some(saturating_add(v.offset, Unwrap(len2))))

\* bound as it would be if it kept the larger of the two bounds (`max` for
\* `min`).
bound_loosest(v, len) ==
    LET len2 == try_from(len)
    IN  IF ~IsSome(len2)
        THEN v
        ELSE IF ~IsSome(v.bound_offset)
        THEN View(v.offset, Some(saturating_add(v.offset, Unwrap(len2))))
        ELSE LET cur == Unwrap(v.bound_offset)
                 suggested_bound_offset == saturating_add(v.offset, Unwrap(len2))
             IN  View(v.offset,
                      Some(IF cur >= suggested_bound_offset
                           THEN cur ELSE suggested_bound_offset))

\* bound as it would be if `len` were taken as the absolute bound offset
\* and not counted from the cursor.
bound_absolute(v, len) ==
    LET len2 == try_from(len)
    IN  IF ~IsSome(len2)
        THEN v
        ELSE IF ~IsSome(v.bound_offset)
        THEN View(v.offset, Some(Unwrap(len2)))
        ELSE View(v.offset, Some(Min(Unwrap(v.bound_offset), Unwrap(len2))))

\* View::bound
bound(v, len) ==
    LET len2 == try_from(len)
    IN  IF ~IsSome(len2)
        THEN v
        ELSE IF ~IsSome(v.bound_offset)
        THEN View(v.offset, Some(saturating_add(v.offset, Unwrap(len2))))
        ELSE LET cur == Unwrap(v.bound_offset)
                 suggested_bound_offset == saturating_add(v.offset, Unwrap(len2))
             IN  View(v.offset, Some(Min(cur, suggested_bound_offset)))

\* hint_available_bytes as the trait's default method gives it, were the
\* override missing.
hint_default(h, v) == None

\* View::bound_len and View::hint_available_bytes
bound_len(h, v) == Some(saturating_sub(Len(h), v.offset))
hint_available_bytes(h, v) == Some(saturating_sub(Len(h), v.offset))

\* ------------------------------------------------------------------ state
VARIABLES
    handle,           \* the byte container, never modified
    offset,           \* BorrowView.offset of the cursor the caller holds
    bound_offset,     \* BorrowView.bound_offset of that cursor
    overflow_checks,  \* whether the build panics on integer overflow
    last              \* the latest call: operation, argument, cursor it was
                      \* applied to, and what it returned

vars == <<handle, offset, bound_offset, overflow_checks, last>>

view == View(offset, bound_offset)

Call(op, arg, pre, res) == [op |-> op, arg |-> arg, pre |-> pre, res |-> res]

\* The containers a behaviour may run over.
Ramp(n) == [i \in 1..n |-> i]
\* The container of the documented scenario: bytes 0x01..0x05.
Scenario == <<1, 2, 3, 4, 5>>
Containers ==
    {Ramp(n) : n \in 0..MaxLen} \cup {Scenario, <<0>>, <<255, 255>>}

\* BorrowView::new(handle)
Init ==
    /\ handle \in Containers
    /\ overflow_checks \in BOOLEAN
    /\ offset = new.offset
    /\ bound_offset = new.bound_offset
    /\ last = Call("new", 0, new, Ret(new))

\* A panic unwinds the caller: nothing runs after it.
Running == ~IsPanic(last.res)

\* BorrowView::new_offset(handle, offset) over the same container
NewOffset(o) ==
    /\ Running
    /\ offset' = new_offset(o).offset
    /\ bound_offset' = new_offset(o).bound_offset
    /\ last' = Call("new_offset", o, view, Ret(new_offset(o)))
    /\ UNCHANGED <<handle, overflow_checks>>

ReadByte ==
    /\ Running
    /\ last' = Call("read_byte", 0, view, read_byte(handle, view))
    /\ UNCHANGED <<handle, offset, bound_offset, overflow_checks>>

Transcribe(len) ==
    /\ Running
    /\ last' = Call("transcribe", len, view,
                    transcribe(handle, view, len, overflow_checks))
    /\ UNCHANGED <<handle, offset, bound_offset, overflow_checks>>

\* skip consumes the view; on Err the caller is left with the clone it kept.
Skip(bytes) ==
    LET r == skip(view, bytes)
    IN  /\ Running
        /\ last' = Call("skip", bytes, view, r)
        /\ offset' = IF IsOk(r) THEN r.val.offset ELSE offset
        /\ bound_offset' = IF IsOk(r) THEN r.val.bound_offset ELSE bound_offset
        /\ UNCHANGED <<handle, overflow_checks>>

Bound(len) ==
    LET r == bound(view, len)
    IN  /\ Running
        /\ last' = Call("bound", len, view, Ret(r))
        /\ offset' = r.offset
        /\ bound_offset' = r.bound_offset
        /\ UNCHANGED <<handle, overflow_checks>>

BoundLen ==
    /\ Running
    /\ last' = Call("bound_len", 0, view, Ret(bound_len(handle, view)))
    /\ UNCHANGED <<handle, offset, bound_offset, overflow_checks>>

HintAvailableBytes ==
    /\ Running
    /\ last' = Call("hint_available_bytes", 0, view,
                    Ret(hint_available_bytes(handle, view)))
    /\ UNCHANGED <<handle, offset, bound_offset, overflow_checks>>

Next ==
    \/ \E o \in Usize : NewOffset(o)
    \/ ReadByte
    \/ \E len \in Usize : Transcribe(len)
    \/ \E bytes \in U64 : Skip(bytes)
    \/ \E len \in U64 : Bound(len)
    \/ BoundLen
    \/ HintAvailableBytes

Spec == Init /\ [][Next]_vars

\* One cursor chain: the view made by new, then only the View operations.
NextChain ==
    \/ ReadByte
    \/ \E len \in Usize : Transcribe(len)
    \/ \E bytes \in U64 : Skip(bytes)
    \/ \E len \in U64 : Bound(len)
    \/ BoundLen
    \/ HintAvailableBytes

SpecChain == Init /\ [][NextChain]_vars

\* ReadError::eq, applied to the errors a caller compares.
Eq(a, b) ==
    /\ Running
    /\ last' = Call("eq", <<a, b>>, view, Ret(eq(a, b)))
    /\ UNCHANGED <<handle, offset, bound_offset, overflow_checks>>

NextErr == \E a \in ReadErrors, b \in ReadErrors : Eq(a, b)

SpecErr == Init /\ [][NextErr]_vars

TypeOK ==
    /\ handle \in Containers
    /\ \A i \in 1..Len(handle) : handle[i] \in Byte
    /\ offset \in Usize
    /\ bound_offset \in {None} \cup {Some(b) : b \in Usize}
    /\ overflow_checks \in BOOLEAN

\* ------------------------------------------------------------- properties
\* The cursor and the outcome of the latest call.
pre == last.pre
res == last.res
Called(op) == last.op = op

\* C1: transcribe(k) on a view at offset o <= len(B) returns exactly
\* B[o..o+k] when o+k <= len(B) and fails with EndOfStream otherwise, for
\* every k; never a shorter result.
C1_TranscribeExact ==
    (Called("transcribe") /\ pre.offset <= Len(handle)) =>
        IF pre.offset + last.arg <= Len(handle)
        THEN res = Ok(SubSeq(handle, pre.offset + 1, pre.offset + last.arg))
        ELSE IsEndOfStream(res)

\* C2: in every view state read_byte() succeeds exactly when transcribe(1)
\* does, returns the one byte of that result, and otherwise fails with the
\* same EndOfStream.
SameByte(byte, one) ==
    /\ IsOk(byte) <=> IsOk(one)
    /\ IsOk(byte) => one.val = <<byte.val>>
    /\ ~IsOk(byte) => (IsEndOfStream(byte) /\ IsEndOfStream(one))
C2_ReadByteIsTranscribeOne ==
    /\ Called("read_byte") =>
          SameByte(res, transcribe(handle, pre, 1, overflow_checks))
    /\ (Called("transcribe") /\ last.arg = 1) =>
          SameByte(read_byte(handle, pre), res)

\* C3: over a container of length L at offset o <= L, skip(m) with
\* m > L - o (more than bound_len() reports) fails with EndOfStream, whether
\* or not a bound was ever applied.
C3_SkipPastEndFails ==
    (/\ Called("skip")
     /\ pre.offset <= Len(handle)
     /\ last.arg > Unwrap(bound_len(handle, pre))) => IsEndOfStream(res)

\* C4: over a container of length L at offset o <= L with no bound tighter
\* than the container end, skip(L - o) succeeds and the view it yields is
\* exhausted: bound_len() is Some(0), and read_byte() and transcribe(k) for
\* every k >= 1 fail with EndOfStream.
NoBoundBefore(v, limit) ==
    ~IsSome(v.bound_offset) \/ Unwrap(v.bound_offset) >= limit
\* On a cursor chain the views at offset L are the views such a skip yields
\* (for L = 0 the fresh view, which skip(0) yields again).
C4_SkipToEndExhausts ==
    /\ (/\ Called("skip")
        /\ pre.offset <= Len(handle)
        /\ last.arg = Len(handle) - pre.offset
        /\ NoBoundBefore(pre, Len(handle))) =>
           /\ IsOk(res)
           /\ res.val.offset = Len(handle)
           /\ bound_len(handle, res.val) = Some(0)
    /\ pre.offset = Len(handle) =>
           /\ Called("bound_len") => res = Ret(Some(0))
           /\ Called("read_byte") => IsEndOfStream(res)
           /\ (Called("transcribe") /\ last.arg >= 1) => IsEndOfStream(res)

\* C5 (as stated): after bound(n) on a view at offset o with no tighter
\* bound, every sequence of skips whose running total stays <= n succeeds,
\* and the first skip that would pass o + n fails with EndOfStream,
\* however many bytes the container holds.
\* SkipsObeyBound(v, total, n, depth): every sequence of up to `depth` skips
\* from v, `total` bytes into a bound of n, goes as the claim says.
RECURSIVE SkipsObeyBound(_, _, _, _)
SkipsObeyBound(v, total, n, depth) ==
    \/ depth = 0
    \/ \A s \in U64 :
          LET r == skip(v, s)
          IN  IF total + s <= n
              THEN IsOk(r) /\ SkipsObeyBound(r.val, total + s, n, depth - 1)
              ELSE IsEndOfStream(r)
C5_SkipsWithinBound ==
    (Called("bound") /\ NoBoundBefore(pre, pre.offset + last.arg)) =>
        SkipsObeyBound(view, 0, last.arg, MaxSkips)

\* C5 (amended): the same, for o + n below the maximum usize (so that
\* n fits in usize and neither the bound nor a skip saturates onto it).
C5_SkipsWithinBoundBelowMax ==
    (/\ Called("bound")
     /\ NoBoundBefore(pre, pre.offset + last.arg)
     /\ pre.offset + last.arg < UsizeMax) =>
        SkipsObeyBound(view, 0, last.arg, MaxSkips)
\* bound(n), n >= 1, over a container that holds more than o + n bytes:
\* skip(n) lands on the bound and skip(1) from there is refused.
C5_Witness ==
    /\ Called("bound")
    /\ NoBoundBefore(pre, pre.offset + last.arg)
    /\ pre.offset + last.arg < UsizeMax
    /\ last.arg >= 1
    /\ Len(handle) > pre.offset + last.arg
    /\ IsOk(skip(view, last.arg))
    /\ skip(view, last.arg).val.offset = Unwrap(bound_offset)
    /\ IsEndOfStream(skip(skip(view, last.arg).val, 1))

\* C6: a view returned by bound(len) never allows reading more than len
\* bytes from where bound was called: after skipping s <= len bytes,
\* transcribe(k) fails with EndOfStream for every k > len - s, and
\* read_byte() fails once the offset has reached the bound.
\* bound(len) at offset o leaves bound_offset at o + len or below, and
\* skip carries it along, so s bytes on, reading more than len - s bytes is
\* reading past bound_offset.
C6_BoundLimitsReads ==
    IsSome(pre.bound_offset) =>
        /\ (Called("transcribe")
               /\ pre.offset + last.arg > Unwrap(pre.bound_offset)) =>
              IsEndOfStream(res)
        /\ (Called("read_byte") /\ pre.offset >= Unwrap(pre.bound_offset)) =>
              IsEndOfStream(res)

\* C7: v.bound(n).bound(m), v.bound(m).bound(n) and v.bound(min(n, m))
\* accept and reject the same skip sequences: every skip is refused by all
\* three or leaves all three at the same view, from which the same holds
\* again.  A later bound never widens the effective bound, and bound
\* never fails.
C7_BoundTightens ==
    Called("bound") =>
        /\ res = Ret(view)
        /\ view.offset = pre.offset
        /\ \A m \in U64 :
              LET nm == bound(view, m)
                  mn == bound(bound(pre, m), last.arg)
                  mi == bound(pre, Min(last.arg, m))
              IN  \A s \in U64 :
                      /\ skip(nm, s) = skip(mi, s)
                      /\ skip(mn, s) = skip(mi, s)
                      /\ IsOk(skip(nm, s)) => IsOk(skip(view, s))
\* A bound(n) on a view that already carried a tighter bound: the bound
\* stays where it was and the skip the wider bound would allow is refused.
C7_Witness ==
    /\ Called("bound")
    /\ IsSome(pre.bound_offset)
    /\ pre.offset + last.arg <= UsizeMax
    /\ pre.offset + last.arg > Unwrap(pre.bound_offset)
    /\ bound_offset = pre.bound_offset
    /\ IsEndOfStream(skip(view, last.arg))

\* C8 (as stated): on a view with no bound, skip(a).skip(b) and skip(a+b)
\* both succeed or both fail, and when they succeed the two views answer
\* read_byte, transcribe(k), bound_len and hint_available_bytes alike.
SameReads(v, w) ==
    /\ read_byte(handle, v) = read_byte(handle, w)
    /\ \A k \in Usize :
          transcribe(handle, v, k, overflow_checks)
              = transcribe(handle, w, k, overflow_checks)
    /\ bound_len(handle, v) = bound_len(handle, w)
    /\ hint_available_bytes(handle, v) = hint_available_bytes(handle, w)
SkipComposes(v, a, b) ==
    LET first == skip(v, a)
        two == IF IsOk(first) THEN skip(first.val, b) ELSE first
        one == skip(v, a + b)
    IN  /\ IsOk(two) <=> IsOk(one)
        /\ IsOk(two) => SameReads(two.val, one.val)
C9_NoPanic ==
    /\ Called("transcribe") =>
          (IsOk(res) /\ Len(res.val) = last.arg) \/ IsEndOfStream(res)
    /\ Called("read_byte") => IsOk(res) \/ IsEndOfStream(res)
    /\ Called("skip") => IsOk(res) \/ IsEndOfStream(res)

\* C10 (as stated): over [1,2,3,4,5], transcribe(3) on a fresh view returns
\* [1,2,3]; after skip(3), transcribe(2) returns [4,5]; and skip(1) on that
\* view fails with EndOfStream.
AfterSkip3 == skip(new, 3).val
ScenarioReads ==
    /\ (Called("transcribe") /\ pre = new /\ last.arg = 3) =>
          res = Ok(<<1, 2, 3>>)
    /\ (Called("skip") /\ pre = new /\ last.arg = 3) =>
          res = Ok(View(3, None))
    /\ (Called("transcribe") /\ pre = AfterSkip3 /\ last.arg = 2) =>
          res = Ok(<<4, 5>>)
C10_Scenario ==
    handle = Scenario =>
        /\ ScenarioReads
        /\ (Called("skip") /\ pre = AfterSkip3 /\ last.arg = 1) =>
              IsEndOfStream(res)

\* C10 (amended): the same reads, and skip(1) on the view after skip(3)
\* succeeds, yielding the view at offset 4.
C10_ScenarioSkipSucceeds ==
    handle = Scenario =>
        /\ ScenarioReads
        /\ (Called("skip") /\ pre = AfterSkip3 /\ last.arg = 1) =>
              res = Ok(View(4, None))
\* The last step of the scenario has run: skip(1) on the view at offset 3,
\* where transcribe(2) reads [4,5].
C10_Witness ==
    /\ handle = Scenario
    /\ Called("skip")
    /\ pre = AfterSkip3
    /\ last.arg = 1
    /\ IsOk(res)
    /\ transcribe(handle, pre, 2, overflow_checks) = Ok(<<4, 5>>)

\* C11: in every view state, whatever bounds were applied,
\* hint_available_bytes() returns what bound_len() returns, both are
\* Some(container length - offset), 0 at or beyond the end, and the hint
\* never exceeds bound_len().
Remaining(v) == IF v.offset >= Len(handle) THEN 0 ELSE Len(handle) - v.offset
C11_HintIsBoundLen ==
    /\ Called("hint_available_bytes") =>
          /\ res = Ret(bound_len(handle, pre))
          /\ res = Ret(Some(Remaining(pre)))
          /\ Unwrap(res.val) <= Unwrap(bound_len(handle, pre))
    /\ Called("bound_len") =>
          /\ res = Ret(hint_available_bytes(handle, pre))
          /\ res = Ret(Some(Remaining(pre)))
\* The hint taken on a bound view past the end of a non-empty container.
C11_Witness ==
    /\ Called("hint_available_bytes")
    /\ IsSome(pre.bound_offset)
    /\ Len(handle) > 0
    /\ pre.offset > Len(handle)
    /\ res = Ret(Some(0))

\* C12: ReadError equality: EndOfStream == EndOfStream is true; a
\* comparison with an Other on either side is false in both argument
\* orders, also between two Other wrapping the same cause and between an
\* Other and itself.
C12_ErrorEquality ==
    Called("eq") =>
        LET a == last.arg[1]
            b == last.arg[2]
        IN  /\ (a.kind = "EndOfStream" /\ b.kind = "EndOfStream") =>
                  res = Ret(TRUE)
            /\ (a.kind = "Other" \/ b.kind = "Other") =>
                  (res = Ret(FALSE) /\ ~eq(b, a))
\* An Other compared with an Other of the same cause (with itself).
C12_Witness ==
    /\ Called("eq")
    /\ last.arg[1].kind = "Other"
    /\ last.arg[2].kind = "Other"
    /\ last.arg[1].cause = last.arg[2].cause
    /\ res = Ret(FALSE)

\* C13: along a chain of skip and bound calls that starts at new or
\* new_offset the offset never decreases: a successful skip(b) yields an
\* offset >= the previous one, exactly previous + b when that does not
\* overflow, and bound leaves the offset alone; no operation moves the
\* cursor backwards.
C13_OffsetMonotone ==
    [][/\ last'.op # "new_offset" => offset' >= offset
       /\ (last'.op = "skip" /\ IsOk(last'.res)) =>
             /\ last'.res.val.offset = offset'
             /\ offset + last'.arg <= UsizeMax => offset' = offset + last'.arg
       /\ last'.op = "bound" =>
             (offset' = offset /\ last'.res.val.offset = offset)]_vars
\* A successful skip from a non-zero offset whose sum overflows usize: the
\* offset has gone up to the maximum, not wrapped round.
C13_Witness ==
    /\ Called("skip")
    /\ IsOk(res)
    /\ pre.offset >= 1
    /\ pre.offset < UsizeMax
    /\ pre.offset + last.arg > UsizeMax
    /\ offset = UsizeMax

\* C14: along any interleaving of skip and bound calls on a cursor chain,
\* bound_offset, once set, is never cleared and never increases: each
\* bound(len) sets it to the minimum of the existing bound and
\* offset + len, and a successful skip carries it over unchanged.
C14_BoundOnlyTightens ==
    [][(IsSome(bound_offset) /\ last'.op # "new_offset") =>
          /\ IsSome(bound_offset')
          /\ Unwrap(bound_offset') <= Unwrap(bound_offset)
          /\ last'.op = "bound" =>
                bound_offset' =
                    Some(Min(Unwrap(bound_offset), offset + last'.arg))
          /\ (last'.op = "skip" /\ IsOk(last'.res)) =>
                /\ bound_offset' = bound_offset
                /\ last'.res.val.bound_offset = bound_offset]_vars
\* A bound on a view that was bound before and has skipped since, which
\* brings the bound down.
C14_Witness ==
    /\ Called("bound")
    /\ IsSome(pre.bound_offset)
    /\ pre.offset >= 1
    /\ bound_offset = Some(pre.offset + last.arg)
    /\ Unwrap(bound_offset) < Unwrap(pre.bound_offset)

\* C15: read_byte() and transcribe(len) do not consult bound_offset: for
\* every view v and every n, v.bound(n) answers read_byte() and
\* transcribe(k), for every k, as v does; the offset and the container's
\* true length alone decide the outcome.
SameResult(a, b) == a.tag = b.tag /\ a.val = b.val
C16_Frame ==
    [][/\ handle' = handle
       /\ last'.op \in {"read_byte", "transcribe", "bound_len",
                        "hint_available_bytes"} =>
             (offset' = offset /\ bound_offset' = bound_offset)
       /\ last'.op = "read_byte" =>
             SameResult(last'.res, read_byte(handle', view'))
       /\ last'.op = "transcribe" =>
             SameResult(last'.res,
                        transcribe(handle', view', last'.arg, overflow_checks'))
       /\ last'.op = "bound_len" =>
             last'.res = Ret(bound_len(handle', view'))
       /\ last'.op = "hint_available_bytes" =>
             last'.res = Ret(hint_available_bytes(handle', view'))
       /\ last'.op = "bound" => offset' = offset
       /\ (last'.op = "skip" /\ IsOk(last'.res)) =>
             bound_offset' = bound_offset]_vars
\* A successful skip forward on a bound view, the bound still in place.
C16_Witness ==
    /\ Called("skip")
    /\ IsOk(res)
    /\ last.arg >= 1
    /\ IsSome(pre.bound_offset)
    /\ bound_offset = pre.bound_offset
    /\ offset = pre.offset + last.arg

\* C17: skip's offset arithmetic saturates and never wraps: when
\* offset + bytes exceeds the maximum usize the new offset is the maximum
\* usize, so the skip fails with EndOfStream if a bound below the maximum
\* is set; a skip count that does not fit in usize fails with EndOfStream;
\* and bound(len) with a len that does not fit in usize, or whose
\* offset + len overflows, never yields a bound below the current offset
\* and never fails.
C17_SaturatingArithmetic ==
    /\ (Called("skip") /\ last.arg <= UsizeMax
           /\ pre.offset + last.arg > UsizeMax) =>
          /\ IsOk(res) \/ IsEndOfStream(res)
          /\ IsOk(res) => res.val.offset = UsizeMax
          /\ IsOk(res) <=> NoBoundBefore(pre, UsizeMax)
    /\ (Called("skip") /\ last.arg > UsizeMax) => IsEndOfStream(res)
    /\ (Called("bound")
           /\ (last.arg > UsizeMax \/ pre.offset + last.arg > UsizeMax)) =>
          /\ res = Ret(view)
          /\ offset = pre.offset
          /\ IsSome(bound_offset) => Unwrap(bound_offset) >= offset
\* A skip from a non-zero offset whose sum overflows usize, refused by a
\* bound below the maximum.
C17_Witness ==
    /\ Called("skip")
    /\ last.arg <= UsizeMax
    /\ pre.offset >= 1
    /\ pre.offset + last.arg > UsizeMax
    /\ IsSome(pre.bound_offset)
    /\ Unwrap(pre.bound_offset) < UsizeMax
    /\ IsEndOfStream(res)

\* C18: in every view state reached from new or new_offset by successful
\* skip and bound calls, a bound_offset that is set is at or above the
\* offset; so skip(0) always succeeds and bound_offset - offset is never
\* negative.
C18_OffsetWithinBound ==
    /\ IsSome(bound_offset) =>
          /\ offset <= Unwrap(bound_offset)
          /\ Unwrap(bound_offset) - offset >= 0
    /\ IsOk(skip(view, 0))
    /\ (Called("skip") /\ last.arg = 0) => res = Ok(pre)
\* skip(0) on a view that stands on its bound, past the start.
C18_Witness ==
    /\ Called("skip")
    /\ last.arg = 0
    /\ IsSome(bound_offset)
    /\ offset = Unwrap(bound_offset)
    /\ offset >= 1
    /\ IsOk(res)

====
